---------------------------- MODULE Spec2Model ----------------------------
(***************************************************************************)
(* Model of the Streamlit calendar-entry app (src/app.py).                 *)
(*                                                                         *)
(* The session state (entries, page, rows_per_page, add_error and the      *)
(* description widget) is the state of the machine.  One user interaction  *)
(* is one action: the widget callback or button handler, followed by the   *)
(* script run that Streamlit performs after it (which clamps the page,     *)
(* lines 161-169).  Text is modelled as a sequence of one-character        *)
(* strings, a datetime as the tuple <<year, month, day, hour, min, sec>>.  *)
(***************************************************************************)
EXTENDS Integers, Sequences, FiniteSets, TLC

VARIABLES
    entries,        \* st.session_state.entries: sequence of event records
    page,           \* st.session_state.page
    rows_per_page,  \* st.session_state.rows_per_page (selectbox, line 163)
    add_error,      \* st.session_state.add_error
    description,    \* st.session_state.description (text_input, line 117)
    last,           \* history: the last interaction, and the length and page before it
    call,           \* function-level specifications: the arguments of a call
    result          \* function-level specifications: what the call returned

vars == <<entries, page, rows_per_page, add_error, description, last, call, result>>

-----------------------------------------------------------------------------
(* Bounds of the model *)

\* Longest event list the application specification builds.
MaxLen == 6

\* Longest list, and furthest index beyond it, handed to list.pop.
MaxPopLen == 4

\* Longest list, largest page index and largest page size handed to the pager.
MaxPageLen == 23

MaxPageIndex == 3

MaxPageSize == 10

\* Longest event list handed to the exporter.
MaxIcsLen == 2

-----------------------------------------------------------------------------
(* Python values *)

None == "None"

Max(a, b) == IF a >= b THEN a ELSE b

Min(a, b) == IF a <= b THEN a ELSE b

\* Characters str.strip() removes when called without arguments.
Whitespace == {" ", "\t", "\n", "\r"}

RECURSIVE LStrip(_)
LStrip(s) ==
    IF s # <<>> /\ Head(s) \in Whitespace THEN LStrip(Tail(s)) ELSE s

RECURSIVE RStrip(_)
RStrip(s) ==
    IF s # <<>> /\ s[Len(s)] \in Whitespace
    THEN RStrip(SubSeq(s, 1, Len(s) - 1))
    ELSE s

\* Variant of Strip that trims nothing.
StripNothing(s) == s

\* str.strip(): the text without its leading and trailing whitespace.
Strip(s) == RStrip(LStrip(s))

\* A decimal digit, and a non-negative number in at least `width` digits.
Digit(d) == <<"0", "1", "2", "3", "4", "5", "6", "7", "8", "9">>[d + 1]

RECURSIVE Decimal(_, _)
Decimal(n, width) ==
    IF n < 10 /\ width <= 1
    THEN <<Digit(n)>>
    ELSE Decimal(n \div 10, width - 1) \o <<Digit(n % 10)>>

\* str.join: the items with the separator between them.
RECURSIVE Join(_, _)
Join(items, sep) ==
    IF items = <<>> THEN <<>>
    ELSE IF Len(items) = 1 THEN items[1]
    ELSE items[1] \o sep \o Join(Tail(items), sep)

\* str.upper(), character by character.
UpperChar(c) ==
    CASE c = "a" -> "A" [] c = "b" -> "B" [] c = "c" -> "C" [] c = "d" -> "D"
      [] c = "e" -> "E" [] c = "f" -> "F" [] c = "g" -> "G" [] c = "h" -> "H"
      [] c = "i" -> "I" [] c = "j" -> "J" [] c = "k" -> "K" [] c = "l" -> "L"
      [] c = "m" -> "M" [] c = "n" -> "N" [] c = "o" -> "O" [] c = "p" -> "P"
      [] c = "q" -> "Q" [] c = "r" -> "R" [] c = "s" -> "S" [] c = "t" -> "T"
      [] c = "u" -> "U" [] c = "v" -> "V" [] c = "w" -> "W" [] c = "x" -> "X"
      [] c = "y" -> "Y" [] c = "z" -> "Z" [] OTHER -> c

Upper(s) == [i \in 1 .. Len(s) |-> UpperChar(s[i])]

\* datetime.strftime("%Y%m%dT%H%M%S")
StrfTime(dt) ==
    Decimal(dt[1], 4) \o Decimal(dt[2], 2) \o Decimal(dt[3], 2) \o <<"T">>
        \o Decimal(dt[4], 2) \o Decimal(dt[5], 2) \o Decimal(dt[6], 2)

\* datetime.datetime.combine(date, time)
Combine(date, time) == date \o time

\* a < b for two tuples of integers of the same length, first difference decides.
RECURSIVE TupleLess(_, _)
TupleLess(a, b) ==
    IF a = <<>> \/ b = <<>> THEN FALSE
    ELSE IF Head(a) # Head(b) THEN Head(a) < Head(b)
    ELSE TupleLess(Tail(a), Tail(b))

\* Variant of DtGeq that rejects equal instants.
DtGreater(a, b) == TupleLess(b, a)

\* to_datetime >= from_datetime on datetimes (line 137).
DtGeq(a, b) == ~TupleLess(a, b)

\* list[start:end] for non-negative start and end: both are clamped to the length.
Slice(list, start, end) ==
    LET lo == Min(start, Len(list))
        hi == Min(end, Len(list))
    IN  IF lo >= hi THEN <<>> ELSE SubSeq(list, lo + 1, hi)

\* Variant of ListAppend that puts the item first.
ListInsertFront(list, item) == <<item>> \o list

\* list.append(item)
ListAppend(list, item) == Append(list, item)

\* Variant of ListPop that fills the gap with the last item.
ListPopSwap(list, index) ==
    LET n == Len(list)
        i == IF index < 0 THEN index + n ELSE index
    IN  IF i < 0 \/ i >= n
        THEN [error |-> "IndexError", list |-> list]
        ELSE [error |-> None,
              list  |-> [j \in 1 .. n - 1 |-> IF j = i + 1 THEN list[n] ELSE list[j]]]

\* Variant of ListPop that ignores the index, like list.pop().
ListPopLast(list, index) ==
    IF list = <<>>
    THEN [error |-> "IndexError", list |-> list]
    ELSE [error |-> None, list |-> SubSeq(list, 1, Len(list) - 1)]

\* Variant of ListPop with an off-by-one range check (index = len accepted).
ListPopLax(list, index) ==
    LET n == Len(list)
        i == IF index < 0 THEN index + n ELSE index
    IN  IF i < 0 \/ i > n
        THEN [error |-> "IndexError", list |-> list]
        ELSE [error |-> None,
              list  |-> SubSeq(list, 1, i) \o SubSeq(list, i + 2, n)]

\* list.pop(index): negative indices count from the end, and an index that is
\* still out of range after that raises IndexError and leaves the list alone.
ListPop(list, index) ==
    LET n == Len(list)
        i == IF index < 0 THEN index + n ELSE index
    IN  IF i < 0 \/ i >= n
        THEN [error |-> "IndexError", list |-> list]
        ELSE [error |-> None,
              list  |-> SubSeq(list, 1, i) \o SubSeq(list, i + 2, n)]

-----------------------------------------------------------------------------
(* The form widgets and what a user can put in them *)

\* Options of the Repeats selectbox, as texts.
NONE == <<"N", "O", "N", "E">>

DAILY == <<"D", "A", "I", "L", "Y">>

WEEKLY == <<"W", "E", "E", "K", "L", "Y">>

MONTHLY == <<"M", "O", "N", "T", "H", "L", "Y">>

ANNUALLY == <<"A", "N", "N", "U", "A", "L", "L", "Y">>

YEARLY == <<"Y", "E", "A", "R", "L", "Y">>

RepeatsOptions == {NONE, DAILY, WEEKLY, MONTHLY, ANNUALLY}

\* Options of the "Rows per page" selectbox; the first one is the default.
RowsOptions == {5, 10, 20}

RowsDefault == 5

ErrDescription == "Please enter a description."

ErrEndBeforeStart == "End date/time must be after start date/time."

\* Two consecutive days and the two default times of the time inputs.
Day1 == <<2024, 12, 31>>

Day2 == <<2025, 1, 1>>

Midnight == <<0, 0, 0>>

EndOfDay == <<23, 59, 0>>

\* Values of (from_date, from_time, to_date, to_time) the user submits.  The
\* to_date widget has min_value = from_date, so to_date >= from_date always.
FormDateTimes ==
    { <<Day1, EndOfDay, Day1, Midnight>>,    \* end before start
      <<Day1, EndOfDay, Day1, EndOfDay>>,    \* end equal to start
      <<Day1, EndOfDay, Day2, Midnight>> }   \* later day, earlier time of day

\* Value of the Repeats selectbox the user submits (it is stored as it is).
FormRepeats == {WEEKLY}

\* Texts the user types into the description input.
FormDescriptions == { <<>>, <<" ">>, <<" ", "A", " ">> }

-----------------------------------------------------------------------------
(* The script body that runs after every interaction *)

\* Variant of TotalPages without the "- 1".
TotalPagesPlain(total_entries, rows) == total_entries \div rows + 1

\* total_pages (line 165); \div is floor division, like Python's //.
TotalPages(total_entries, rows) == (total_entries - 1) \div rows + 1

\* Variant of ClampPage that leaves the page as it is.
ClampPageNever(ents, p, rows) == p

\* "Ensure page is in valid range" (lines 161-169).
ClampPage(ents, p, rows) ==
    IF ents # <<>>
    THEN LET total_pages == TotalPages(Len(ents), rows)
         IN  IF p >= total_pages THEN Max(0, total_pages - 1) ELSE p
    ELSE p

\* start_idx and end_idx (lines 172-173).
StartIdx(p, rows) == p * rows

\* Variant of EndIdx that stops one row early.
EndIdxShort(p, rows, total_entries) ==
    Min(StartIdx(p, rows) + rows, total_entries) - 1

EndIdx(p, rows, total_entries) == Min(StartIdx(p, rows) + rows, total_entries)

\* The rows shown: entries[start_idx:end_idx] (line 184).
PageSlice(ents, p, rows) ==
    Slice(ents, StartIdx(p, rows), EndIdx(p, rows, Len(ents)))

\* The values actual_index takes for the delete buttons drawn (lines 184-185).
ActualIndices(ents, p, rows) ==
    { StartIdx(p, rows) + i : i \in 0 .. Len(PageSlice(ents, p, rows)) - 1 }

-----------------------------------------------------------------------------
(* add_event_callback *)

\* History record of an interaction taken in the current state.
Did(op) == [op |-> op, len |-> Len(entries), page |-> page]

\* Variant of DescriptionGiven that tests the raw text.
DescriptionGivenRaw(desc) == desc # <<>>

\* "if desc.strip():" (line 127): the empty string is false.
DescriptionGiven(desc) == Strip(desc) # <<>>

\* Variant of NewEntry that stores the description as typed.
NewEntryUntrimmed(from_datetime, to_datetime, rep, desc) ==
    [from_date   |-> from_datetime,
     to_date     |-> to_datetime,
     repeats     |-> rep,
     description |-> desc]

\* The dictionary appended on success (lines 138-143).
NewEntry(from_datetime, to_datetime, rep, desc) ==
    [from_date   |-> from_datetime,
     to_date     |-> to_datetime,
     repeats     |-> rep,
     description |-> Strip(desc)]

\* Variant of AddEvent that compares the dates before it looks at the description.
AddEventDatesFirst(f_date, f_time, t_date, t_time, rep) ==
    LET desc          == description
        from_datetime == Combine(f_date, f_time)
        to_datetime   == Combine(t_date, t_time)
    IN  /\ IF DtGeq(to_datetime, from_datetime)
           THEN IF DescriptionGiven(desc)
                THEN /\ Len(entries) < MaxLen
                     /\ entries' = ListAppend(entries,
                                      NewEntry(from_datetime, to_datetime, rep, desc))
                     /\ description' = <<>>
                     /\ add_error' = None
                ELSE /\ add_error' = ErrDescription
                     /\ UNCHANGED <<entries, description>>
           ELSE /\ add_error' = ErrEndBeforeStart
                /\ UNCHANGED <<entries, description>>
        /\ page' = ClampPage(entries', page, rows_per_page)
        /\ last' = Did("add")
        /\ UNCHANGED <<rows_per_page, call, result>>

\* "Add Event" clicked with the given widget values; the description is read
\* from, and cleared in, the session state.
AddEvent(f_date, f_time, t_date, t_time, rep) ==
    LET desc          == description
        from_datetime == Combine(f_date, f_time)
        to_datetime   == Combine(t_date, t_time)
    IN  /\ IF DescriptionGiven(desc)
           THEN IF DtGeq(to_datetime, from_datetime)
                THEN /\ Len(entries) < MaxLen
                     /\ entries' = ListAppend(entries,
                                      NewEntry(from_datetime, to_datetime, rep, desc))
                     /\ description' = <<>>
                     /\ add_error' = None
                ELSE /\ add_error' = ErrEndBeforeStart
                     /\ UNCHANGED <<entries, description>>
           ELSE /\ add_error' = ErrDescription
                /\ UNCHANGED <<entries, description>>
        /\ page' = ClampPage(entries', page, rows_per_page)
        /\ last' = Did("add")
        /\ UNCHANGED <<rows_per_page, call, result>>

\* The user types into the description input.
TypeDescription(text) ==
    /\ description' = text
    /\ page' = ClampPage(entries, page, rows_per_page)
    /\ last' = Did("type")
    /\ UNCHANGED <<entries, rows_per_page, add_error, call, result>>

-----------------------------------------------------------------------------
(* The events table: delete, paging, clear *)

\* Variant of PageAfterDelete that only resets the page of an empty store.
PageAfterDeleteKeep(ents, p, rows) ==
    IF ents = <<>> THEN 0 ELSE p

\* Page adjustment after a delete (lines 196-199).
PageAfterDelete(ents, p, rows) ==
    IF ents = <<>> THEN 0
    ELSE IF p > (Len(ents) - 1) \div rows THEN Max(0, p - 1)
    ELSE p

\* The delete button of row actual_index is clicked.
DeleteEvent(actual_index) ==
    LET popped == ListPop(entries, actual_index)
    IN  /\ entries # <<>>
        /\ actual_index \in ActualIndices(entries, page, rows_per_page)
        /\ popped.error = None
        /\ entries' = popped.list
        /\ page' = ClampPage(popped.list,
                             PageAfterDelete(popped.list, page, rows_per_page),
                             rows_per_page)
        /\ last' = Did("delete")
        /\ UNCHANGED <<rows_per_page, add_error, description, call, result>>

\* "Previous" is disabled on page 0 (lines 206-208).
PreviousPage ==
    /\ entries # <<>>
    /\ page # 0
    /\ page' = ClampPage(entries, page - 1, rows_per_page)
    /\ last' = Did("previous")
    /\ UNCHANGED <<entries, rows_per_page, add_error, description, call, result>>

\* "Next" is disabled on the last page (lines 217-219).
NextPage ==
    /\ entries # <<>>
    /\ ~(page >= TotalPages(Len(entries), rows_per_page) - 1)
    /\ page' = ClampPage(entries, page + 1, rows_per_page)
    /\ last' = Did("next")
    /\ UNCHANGED <<entries, rows_per_page, add_error, description, call, result>>

\* The "Rows per page" selectbox exists only while there are events.
SelectRows(rows) ==
    /\ entries # <<>>
    /\ rows_per_page' = rows
    /\ page' = ClampPage(entries, page, rows)
    /\ last' = Did("rows")
    /\ UNCHANGED <<entries, add_error, description, call, result>>

\* Variant of ClearAll that forgets to reset the page.
ClearAllKeepPage ==
    /\ entries # <<>>
    /\ entries' = <<>>
    /\ page' = page
    /\ last' = Did("clear")
    /\ UNCHANGED <<rows_per_page, add_error, description, call, result>>

\* "Clear All Events" (lines 234-237).
ClearAll ==
    /\ entries # <<>>
    /\ entries' = <<>>
    /\ page' = 0
    /\ last' = Did("clear")
    /\ UNCHANGED <<rows_per_page, add_error, description, call, result>>

\* Variant of DownloadIcs that goes back to the first page.
DownloadIcsFirstPage ==
    /\ entries # <<>>
    /\ page' = 0
    /\ last' = Did("export")
    /\ UNCHANGED <<entries, rows_per_page, add_error, description, call, result>>

\* "Export to ICS" (lines 221-231): the button hands out the text built from
\* the entries in this script run; the click starts another script run.
DownloadIcs ==
    /\ entries # <<>>
    /\ page' = ClampPage(entries, page, rows_per_page)
    /\ last' = Did("export")
    /\ UNCHANGED <<entries, rows_per_page, add_error, description, call, result>>

-----------------------------------------------------------------------------
(* The ICS exporter.  A text is a sequence of pieces: a literal of the source *)
(* is one piece, every character of an interpolated value is one piece, and   *)
(* "\n" is the piece that "\n".join puts between lines.                      *)

NL == <<"\n">>

\* Variant of RRuleLines without the ANNUALLY to YEARLY translation.
RRuleLinesNoYearly(repeats) ==
    LET freq == Strip(Upper(repeats))
    IN  IF repeats # <<>> /\ repeats # NONE
        THEN IF freq \in {DAILY, WEEKLY, MONTHLY, YEARLY}
             THEN << <<"RRULE:FREQ=">> \o freq >>
             ELSE <<>>
        ELSE <<>>

\* Variant of RRuleLines without the check of the frequency.
RRuleLinesUnchecked(repeats) ==
    LET upper == Strip(Upper(repeats))
        freq  == IF upper = ANNUALLY THEN YEARLY ELSE upper
    IN  IF repeats # <<>> /\ repeats # NONE
        THEN << <<"RRULE:FREQ=">> \o freq >>
        ELSE <<>>

\* The lines the recurrence adds to an event (lines 44-49).  repeats is
\* always a text here (generate_ics_content passes the stored one), and the
\* empty text is the only false one.
RRuleLines(repeats) ==
    LET upper == Strip(Upper(repeats))
        freq  == IF upper = ANNUALLY THEN YEARLY ELSE upper
    IN  IF repeats # <<>> /\ repeats # NONE
        THEN IF freq \in {DAILY, WEEKLY, MONTHLY, YEARLY}
             THEN << <<"RRULE:FREQ=">> \o freq >>
             ELSE <<>>
        ELSE <<>>

\* Variant of create_ics_event that writes the clock reading as the start.
create_ics_event_now(start_dt, end_dt, desc, repeats, now, uid) ==
    LET dt_start_str == <<"DTSTART:">> \o now
        dt_end_str   == <<"DTEND:">> \o StrfTime(end_dt)
        event == << <<"BEGIN:VEVENT">>,
                    <<"DTSTAMP:">> \o now,
                    <<"UID:">> \o uid,
                    dt_start_str,
                    dt_end_str,
                    <<"SUMMARY:">> \o desc,
                    <<"DESCRIPTION:">> \o desc >>
    IN  Join(event \o RRuleLines(repeats) \o << <<"END:VEVENT">> >>, NL)

\* Variant of create_ics_event that writes DTEND before DTSTART.
create_ics_event_swapped(start_dt, end_dt, desc, repeats, now, uid) ==
    LET dt_start_str == <<"DTSTART:">> \o StrfTime(start_dt)
        dt_end_str   == <<"DTEND:">> \o StrfTime(end_dt)
        event == << <<"BEGIN:VEVENT">>,
                    <<"DTSTAMP:">> \o now,
                    <<"UID:">> \o uid,
                    dt_end_str,
                    dt_start_str,
                    <<"SUMMARY:">> \o desc,
                    <<"DESCRIPTION:">> \o desc >>
    IN  Join(event \o RRuleLines(repeats) \o << <<"END:VEVENT">> >>, NL)

\* create_ics_event (lines 25-52); now and uid are the values that
\* datetime.now().strftime(...) and str(uuid.uuid4()) return in this call.
create_ics_event(start_dt, end_dt, desc, repeats, now, uid) ==
    LET dt_start_str == <<"DTSTART:">> \o StrfTime(start_dt)
        dt_end_str   == <<"DTEND:">> \o StrfTime(end_dt)
        event == << <<"BEGIN:VEVENT">>,
                    <<"DTSTAMP:">> \o now,
                    <<"UID:">> \o uid,
                    dt_start_str,
                    dt_end_str,
                    <<"SUMMARY:">> \o desc,
                    <<"DESCRIPTION:">> \o desc >>
    IN  Join(event \o RRuleLines(repeats) \o << <<"END:VEVENT">> >>, NL)

\* Variant of generate_ics_content that ends the text with a newline.
generate_ics_content_newline(ents, stamps) ==
    LET events == [i \in 1 .. Len(ents) |->
                      create_ics_event(ents[i].from_date, ents[i].to_date,
                                       ents[i].description, ents[i].repeats,
                                       stamps[i][1], stamps[i][2])]
        ics_content == << <<"BEGIN:VCALENDAR">>,
                          <<"VERSION:2.0">>,
                          <<"PRODID:-//Calendar Entry App//Streamlit//EN">>,
                          <<"CALSCALE:GREGORIAN">> >>
    IN  Join(ics_content \o events \o << <<"END:VCALENDAR">> >>, NL) \o NL

\* generate_ics_content (lines 55-76); stamps[i] is the <<now, uid>> pair drawn
\* while the i-th event is written.
generate_ics_content(ents, stamps) ==
    LET events == [i \in 1 .. Len(ents) |->
                      create_ics_event(ents[i].from_date, ents[i].to_date,
                                       ents[i].description, ents[i].repeats,
                                       stamps[i][1], stamps[i][2])]
        ics_content == << <<"BEGIN:VCALENDAR">>,
                          <<"VERSION:2.0">>,
                          <<"PRODID:-//Calendar Entry App//Streamlit//EN">>,
                          <<"CALSCALE:GREGORIAN">> >>
    IN  Join(ics_content \o events \o << <<"END:VCALENDAR">> >>, NL)

-----------------------------------------------------------------------------
(* The application *)

NoCall == [op |-> "none"]

\* The session state of a new session (lines 18-22, 119-120).
SessionInit ==
    /\ entries = <<>>
    /\ page = 0
    /\ rows_per_page = RowsDefault
    /\ add_error = None
    /\ description = <<>>
    /\ last = [op |-> "init", len |-> 0, page |-> 0]

Init ==
    /\ SessionInit
    /\ call = NoCall
    /\ result = NoCall

Next ==
    \/ \E dt \in FormDateTimes, rep \in FormRepeats :
          AddEvent(dt[1], dt[2], dt[3], dt[4], rep)
    \/ \E text \in FormDescriptions : TypeDescription(text)
    \/ \E i \in 0 .. MaxLen : DeleteEvent(i)
    \/ PreviousPage
    \/ NextPage
    \/ \E rows \in RowsOptions : SelectRows(rows)
    \/ DownloadIcs
    \/ ClearAll

Spec == Init /\ [][Next]_vars

-----------------------------------------------------------------------------
(* Function-level specifications: one call of one operation on given arguments *)

session == <<entries, page, rows_per_page, add_error, description, last>>

\* The k-th of a list of distinct events.
SampleEvent(k) ==
    [from_date   |-> Combine(Day1, Midnight),
     to_date     |-> Combine(Day1, EndOfDay),
     repeats     |-> NONE,
     description |-> <<"#">> \o Decimal(k, 1)]

SampleEvents(n) == [k \in 1 .. n |-> SampleEvent(k)]

\* entries.pop(index) on any list and any index.
PopCalls ==
    [op    : {"pop"},
     list  : { SubSeq(SampleEvents(MaxPopLen), a, b) :
                  a \in 1 .. MaxPopLen + 1, b \in 0 .. MaxPopLen },
     index : -(MaxPopLen + 1) .. MaxPopLen + 1]

PopInit ==
    /\ SessionInit
    /\ call \in PopCalls
    /\ result = NoCall

RemoveAt ==
    /\ call.op = "pop"
    /\ result = NoCall
    /\ result' = [op |-> "pop", value |-> ListPop(call.list, call.index)]
    /\ UNCHANGED <<session, call>>

SpecPop == PopInit /\ [][RemoveAt]_vars

\* The pagination block for a store and a page size: the page count is
\* computed and shown only when there are events (lines 161-165, 239-240).
PageCountShown(ents, rows) ==
    IF ents # <<>>
    THEN [shown |-> TRUE, total_pages |-> TotalPages(Len(ents), rows)]
    ELSE [shown |-> FALSE]

PageSizes == 1 .. MaxPageSize \cup RowsOptions

PageCalls ==
    [op : {"page"}, n : 0 .. MaxPageLen, p : 0 .. MaxPageIndex, s : PageSizes]
        \cup [op : {"pageCount"}, n : 0 .. MaxPageLen, s : PageSizes]

PageInit ==
    /\ SessionInit
    /\ call \in PageCalls
    /\ result = NoCall

ShowPage ==
    /\ call.op = "page"
    /\ result = NoCall
    /\ result' = [op |-> "page",
                  value |-> PageSlice(SampleEvents(call.n), call.p, call.s)]
    /\ UNCHANGED <<session, call>>

CountPages ==
    /\ call.op = "pageCount"
    /\ result = NoCall
    /\ result' = [op |-> "pageCount",
                  value |-> PageCountShown(SampleEvents(call.n), call.s)]
    /\ UNCHANGED <<session, call>>

SpecPage == PageInit /\ [][ShowPage \/ CountPages]_vars

\* Two clock readings and two identifiers a call may draw.
Stamps ==
    { <<StrfTime(Combine(Day2, Midnight)), <<"uuid-1">> >>,
      <<StrfTime(Combine(Day2, EndOfDay)), <<"uuid-2">> >> }

\* Events as add stores them: every recurrence, equal and distinct instants.
ExportEvents ==
    [from_date : {Combine(Day1, EndOfDay)}, to_date : {Combine(Day1, EndOfDay)},
     repeats : RepeatsOptions, description : { <<"L", "u", "n", "c", "h">> }]
        \cup
    [from_date : {Combine(Day1, EndOfDay)}, to_date : {Combine(Day2, Midnight)},
     repeats : RepeatsOptions, description : { <<"A", " ", "b">> }]

IcsCalls ==
    [op : {"export"},
     events : UNION { [1 .. n -> ExportEvents] : n \in 0 .. MaxIcsLen }]

IcsInit ==
    /\ SessionInit
    /\ call \in IcsCalls
    /\ result = NoCall

Export ==
    /\ call.op = "export"
    /\ result = NoCall
    /\ \E stamps \in [1 .. Len(call.events) -> Stamps] :
          result' = [op |-> "export", stamps |-> stamps,
                     value |-> generate_ics_content(call.events, stamps)]
    /\ UNCHANGED <<session, call>>

\* The same list is exported a second time; the first text is kept beside it.
ExportAgain ==
    /\ call.op = "export"
    /\ result.op = "export"
    /\ \E stamps \in [1 .. Len(call.events) -> Stamps] :
          result' = [op |-> "exportAgain", stamps |-> stamps,
                     first |-> result.value,
                     value |-> generate_ics_content(call.events, stamps)]
    /\ UNCHANGED <<session, call>>

SpecIcs == IcsInit /\ [][Export \/ ExportAgain]_vars

\* Recurrence texts that are none of the five options: other spellings of
\* them, the token YEARLY, an unknown frequency and the empty text.
OtherRepeats ==
    { <<"d", "a", "i", "l", "y">>,
      <<"W", "e", "e", "k", "l", "y">>,
      <<"m", "o", "n", "t", "h", "l", "y">>,
      <<"a", "n", "n", "u", "a", "l", "l", "y">>,
      <<"n", "o", "n", "e">>,
      <<"y", "e", "a", "r", "l", "y">>,
      YEARLY,
      <<"H", "O", "U", "R", "L", "Y">>,
      <<"D", "A", "I", "L", "Y", "S">>,
      <<>>,
      <<" ">> }
        \cup { <<" ">> \o r \o <<" ">> : r \in RepeatsOptions }
        \cup { r \o <<"\n">> : r \in RepeatsOptions }

\* create_ics_event on one event and any recurrence text.
EventCalls ==
    [op : {"event"},
     start : {Combine(Day1, EndOfDay)},
     end : {Combine(Day1, EndOfDay), Combine(Day2, Midnight)},
     description : { <<"L", "u", "n", "c", "h">> },
     repeats : RepeatsOptions \cup OtherRepeats]

EventInit ==
    /\ SessionInit
    /\ call \in EventCalls
    /\ result = NoCall

CreateEvent ==
    /\ call.op = "event"
    /\ result = NoCall
    /\ \E stamp \in Stamps :
          result' = [op |-> "event",
                     value |-> create_ics_event(call.start, call.end, call.description,
                                                call.repeats, stamp[1], stamp[2])]
    /\ UNCHANGED <<session, call>>

SpecEvent == EventInit /\ [][CreateEvent]_vars

-----------------------------------------------------------------------------
(* Properties of the event store, checked under Spec *)

\* The lines of a text: the runs of pieces between "\n" pieces.
RECURSIVE Lines(_)
Lines(text) ==
    IF \A i \in 1 .. Len(text) : text[i] # "\n"
    THEN <<text>>
    ELSE LET k == CHOOSE i \in 1 .. Len(text) :
                      text[i] = "\n" /\ \A j \in 1 .. i - 1 : text[j] # "\n"
         IN  <<SubSeq(text, 1, k - 1)>> \o Lines(SubSeq(text, k + 1, Len(text)))

\* A clock reading and an identifier, to write out a store's document.
NOW == <<"n", "o", "w">>

UID == <<"u", "i", "d">>

\* The text has no whitespace at either end.
Trimmed(s) == s # <<>> => (Head(s) \notin Whitespace /\ s[Len(s)] \notin Whitespace)

\* The text is empty or whitespace only.
IsBlank(s) == \A i \in 1 .. Len(s) : s[i] \in Whitespace

\* t is s without some whitespace-only prefix and suffix, and is itself trimmed.
IsTrimOf(t, s) ==
    /\ Trimmed(t)
    /\ \E i \in 0 .. Len(s), j \in 0 .. Len(s) :
          /\ i + Len(t) + j = Len(s)
          /\ IsBlank(SubSeq(s, 1, i))
          /\ SubSeq(s, i + 1, i + Len(t)) = t
          /\ IsBlank(SubSeq(s, i + Len(t) + 1, Len(s)))

\* C1: in every reachable state every stored event has end >= start, a
\* description that is non-empty and has no surrounding whitespace, and a
\* recurrence among the five options.
C1_StoredEventsValid ==
    \A i \in 1 .. Len(entries) :
        LET e == entries[i]
        IN  /\ ~TupleLess(e.to_date, e.from_date)
            /\ e.description # <<>>
            /\ Trimmed(e.description)
            /\ e.repeats \in RepeatsOptions

C1_Witness ==
    /\ last.op = "delete"
    /\ Len(entries) >= 2
    /\ \E i \in 1 .. Len(entries) : entries[i].to_date = entries[i].from_date
    /\ \E i \in 1 .. Len(entries) : entries[i].to_date # entries[i].from_date

\* C2: an add whose description is empty or whitespace only reports the
\* empty-description error and leaves the event sequence as it was.
C2_BlankDescriptionRejected ==
    [][\A dt \in FormDateTimes, rep \in FormRepeats :
          (IsBlank(description) /\ AddEvent(dt[1], dt[2], dt[3], dt[4], rep))
              => (add_error' = ErrDescription /\ entries' = entries)]_vars

C2_Witness ==
    /\ last.op = "add"
    /\ add_error = ErrDescription
    /\ description = <<" ">>
    /\ Len(entries) >= 2

\* C3: with a non-blank description, an add with end < start reports the
\* end-before-start error and leaves the sequence unchanged, and an add with
\* end = start succeeds and stores the event.
C3_EndBeforeStartRejected ==
    [][\A dt \in FormDateTimes, rep \in FormRepeats :
          LET start == dt[1] \o dt[2]
              end   == dt[3] \o dt[4]
          IN  (~IsBlank(description) /\ AddEvent(dt[1], dt[2], dt[3], dt[4], rep))
                => /\ TupleLess(end, start)
                        => (add_error' = ErrEndBeforeStart /\ entries' = entries)
                   /\ end = start
                        => /\ add_error' = None
                           /\ Len(entries') = Len(entries) + 1
                           /\ entries'[Len(entries')].from_date = start
                           /\ entries'[Len(entries')].to_date = end]_vars

C3_Witness ==
    /\ last.op = "add"
    /\ add_error = ErrEndBeforeStart
    /\ ~IsBlank(description)
    /\ \E i \in 1 .. Len(entries) : entries[i].to_date = entries[i].from_date

\* C4: a successful add makes the sequence one longer, puts the new event,
\* with its description trimmed, last, and leaves every earlier event where
\* it was; a store of events added one after the other is returned by the
\* first page of size 10 in the order of the adds.
C4_AddAppends ==
    /\ [][\A dt \in FormDateTimes, rep \in FormRepeats :
             LET start == dt[1] \o dt[2]
                 end   == dt[3] \o dt[4]
             IN  (/\ ~IsBlank(description)
                  /\ ~TupleLess(end, start)
                  /\ AddEvent(dt[1], dt[2], dt[3], dt[4], rep))
                   => /\ Len(entries') = Len(entries) + 1
                      /\ \A i \in 1 .. Len(entries) : entries'[i] = entries[i]
                      /\ LET new == entries'[Len(entries')]
                         IN  /\ new.from_date = start
                             /\ new.to_date = end
                             /\ new.repeats = rep
                             /\ IsTrimOf(new.description, description)
                      /\ PageSlice(entries', 0, 10) = entries']_vars

C4_Witness ==
    /\ last.op = "add"
    /\ last.len = 1
    /\ Len(entries) = 2
    /\ entries[1] # entries[2]
    /\ PageSlice(entries, 0, 10) = entries

\* C5: deleting the event at position i of a store of length n gives a store
\* of length n-1 in which the events before i keep their positions and the
\* events after i each move down by one.
C5_RemoveAtShifts ==
    [][\A i \in 0 .. MaxLen :
          DeleteEvent(i)
            => /\ i < Len(entries)
               /\ Len(entries') = Len(entries) - 1
               /\ \A j \in 0 .. i - 1 : entries'[j + 1] = entries[j + 1]
               /\ \A j \in i + 1 .. Len(entries) - 1 : entries'[j] = entries[j + 1]]_vars

C5_Witness ==
    /\ last.op = "delete"
    /\ last.len = 3
    /\ Len(entries) = 2
    /\ entries[1] # entries[2]

\* C7: clear can be used whenever there are events, whatever their number
\* and the current page, and leaves no event and page 0.
C7_ClearEmpties ==
    /\ last.op = "clear" => (entries = <<>> /\ page = 0)
    /\ entries # <<>> => ENABLED ClearAll

C7_Witness ==
    /\ last.op = "clear"
    /\ last.len = 6
    /\ last.page = 1
    /\ entries = <<>>

\* C14: a step changes the store only by appending one event or by removing
\* events; the events that stay keep their fields and their relative order.
C14_OnlyAppendOrRemove ==
    [][\/ entries' = entries
       \/ /\ Len(entries') = Len(entries) + 1
          /\ SubSeq(entries', 1, Len(entries)) = entries
       \/ \E i \in 1 .. Len(entries) :
             entries' = SubSeq(entries, 1, i - 1) \o SubSeq(entries, i + 1, Len(entries))
       \/ entries' = <<>>]_vars

C14_Witness ==
    /\ last.op = "delete"
    /\ last.len = 4
    /\ Len(entries) = 3
    /\ entries[1] # entries[2]
    /\ entries[2] # entries[3]
    /\ rows_per_page = 20

\* C16: whenever the table is drawn for a non-empty store, the page p lies in
\* 0 .. pageCount - 1, so p * rowsPerPage is below the length and the page
\* shows at least one event; the page is never negative.
C16_PageInRange ==
    /\ page >= 0
    /\ entries # <<>> =>
          /\ \E count \in 1 .. Len(entries) :
                /\ count * rows_per_page >= Len(entries)
                /\ (count - 1) * rows_per_page < Len(entries)
                /\ page <= count - 1
          /\ page * rows_per_page < Len(entries)
          /\ PageSlice(entries, page, rows_per_page) # <<>>

C16_Witness ==
    /\ last = [op |-> "rows", len |-> 6, page |-> 1]
    /\ rows_per_page = 10
    /\ page = 0

\* C17: right after a delete from a valid page the page is 0 if the store is
\* now empty and otherwise at most (newLength - 1) div rowsPerPage: it is one
\* less than before exactly when the deleted event was the only one on the
\* last page, and unchanged in every other case.
C17_PageAfterDelete ==
    [][\A i \in 0 .. MaxLen :
          DeleteEvent(i) =>
            LET after    == PageAfterDelete(entries', page, rows_per_page)
                onlyOne  == Len(entries) = page * rows_per_page + 1
                expected == IF entries' = <<>> THEN 0
                            ELSE IF onlyOne THEN page - 1
                            ELSE page
            IN  /\ page <= (Len(entries) - 1) \div rows_per_page
                /\ after = expected
                /\ entries' # <<>> => after <= (Len(entries') - 1) \div rows_per_page
                /\ page' = after]_vars

C17_Witness ==
    /\ last = [op |-> "delete", len |-> 6, page |-> 1]
    /\ Len(entries) = 5
    /\ page = 0
    /\ rows_per_page = 5

\* C18: a failed add reports one error, the description being checked first
\* (a blank description with end < start reports the empty description); a
\* successful add reports none and clears the error of an earlier add.
C18_OneErrorDescriptionFirst ==
    [][\A dt \in FormDateTimes, rep \in FormRepeats :
          AddEvent(dt[1], dt[2], dt[3], dt[4], rep) =>
            LET start == dt[1] \o dt[2]
                end   == dt[3] \o dt[4]
            IN  add_error' =
                    (IF IsBlank(description) THEN ErrDescription
                     ELSE IF TupleLess(end, start) THEN ErrEndBeforeStart
                     ELSE None)]_vars

C18_Witness ==
    /\ last.op = "add"
    /\ add_error = ErrDescription
    /\ description = <<>>
    /\ Len(entries) = last.len
    /\ Len(entries) >= 1

\* C19: export leaves the events and the page as they are, and the text of
\* every store built by add is a complete document with one block per event.
C19_ExportReadOnly ==
    /\ [][DownloadIcs => (entries' = entries /\ page' = page)]_vars
    /\ [](entries # <<>> =>
            LET lines == Lines(generate_ics_content(entries,
                                   [i \in 1 .. Len(entries) |-> <<NOW, UID>>]))
            IN  /\ lines[1] = <<"BEGIN:VCALENDAR">>
                /\ lines[Len(lines)] = <<"END:VCALENDAR">>
                /\ Len(SelectSeq(lines, LAMBDA l : l = <<"BEGIN:VEVENT">>)) = Len(entries)
                /\ Len(SelectSeq(lines, LAMBDA l : l = <<"END:VEVENT">>)) = Len(entries))

C19_Witness ==
    /\ last = [op |-> "export", len |-> 6, page |-> 1]
    /\ Len(entries) = 6
    /\ page = 1

-----------------------------------------------------------------------------
(* Properties of single operations, checked under SpecPop and SpecPage *)

\* The list without its element at 0-based position i.
Without(list, i) == [j \in 1 .. Len(list) - 1 |-> IF j <= i THEN list[j] ELSE list[j + 1]]

Ceil(n, s) == CHOOSE k \in 0 .. n : k * s >= n /\ (k = 0 \/ (k - 1) * s < n)

\* C9 as stated: pageCount(s) is ceil(n / s) for every length n >= 0, and is
\* 1 when n is 0.
C9_AsStated ==
    result.op = "pageCount" =>
        /\ result.value.shown
        /\ result.value.total_pages = (IF call.n = 0 THEN 1 ELSE Ceil(call.n, call.s))

\* C9: for every length n >= 1 pageCount(s) is ceil(n / s), which is at
\* least 1; for an empty store no page count is computed or shown.
C9_PageCountIsCeil ==
    result.op = "pageCount" =>
        IF call.n >= 1
        THEN /\ result.value.shown
             /\ result.value.total_pages = Ceil(call.n, call.s)
             /\ result.value.total_pages >= 1
        ELSE ~result.value.shown

C9_Witness ==
    /\ result.op = "pageCount"
    /\ call.n = 23 /\ call.s = 10
    /\ result.value.shown
    /\ result.value.total_pages = 3

-----------------------------------------------------------------------------
(* Properties of the exporter, checked under SpecIcs *)

\* Number of lines of the first k blocks when hasRule tells which have an RRULE.
RECURSIVE BlockLines(_, _)
BlockLines(hasRule, k) ==
    IF k = 0 THEN 0
    ELSE BlockLines(hasRule, k - 1) + (IF hasRule[k] THEN 9 ELSE 8)

\* C10: the document is the four calendar lines, one VEVENT block per event
\* in the order of the events, and END:VCALENDAR; every block is BEGIN:VEVENT,
\* DTSTAMP, UID, DTSTART, DTEND, SUMMARY, DESCRIPTION, an optional RRULE and
\* END:VEVENT in that order, SUMMARY and DESCRIPTION carrying the description.
C10_DocumentLayout ==
    result.op = "export" =>
        LET lines == Lines(result.value)
            n     == Len(call.events)
        IN  \E hasRule \in [1 .. n -> BOOLEAN] :
              /\ Len(lines) = 5 + BlockLines(hasRule, n)
              /\ lines[1] = <<"BEGIN:VCALENDAR">>
              /\ lines[2] = <<"VERSION:2.0">>
              /\ Head(lines[3]) = "PRODID:-//Calendar Entry App//Streamlit//EN"
              /\ lines[4] = <<"CALSCALE:GREGORIAN">>
              /\ lines[Len(lines)] = <<"END:VCALENDAR">>
              /\ \A k \in 1 .. n :
                    LET at   == 4 + BlockLines(hasRule, k - 1)
                        desc == call.events[k].description
                    IN  /\ lines[at + 1] = <<"BEGIN:VEVENT">>
                        /\ Head(lines[at + 2]) = "DTSTAMP:"
                        /\ Head(lines[at + 3]) = "UID:"
                        /\ Head(lines[at + 4]) = "DTSTART:"
                        /\ Head(lines[at + 5]) = "DTEND:"
                        /\ lines[at + 6] = <<"SUMMARY:">> \o desc
                        /\ lines[at + 7] = <<"DESCRIPTION:">> \o desc
                        /\ hasRule[k] => Head(lines[at + 8]) = "RRULE:FREQ="
                        /\ lines[at + (IF hasRule[k] THEN 9 ELSE 8)] = <<"END:VEVENT">>

C10_Witness ==
    /\ result.op = "export"
    /\ Len(call.events) = 2
    /\ call.events[1].repeats = ANNUALLY
    /\ call.events[2].repeats = NONE
    /\ call.events[1].description # call.events[2].description
    /\ Len(Lines(result.value)) = 22

\* The lines of the k-th VEVENT block of a document, markers excluded.
BlockOf(lines, k) ==
    LET begins == { i \in 1 .. Len(lines) : lines[i] = <<"BEGIN:VEVENT">> }
        ends   == { i \in 1 .. Len(lines) : lines[i] = <<"END:VEVENT">> }
        b == CHOOSE i \in begins : Cardinality({ j \in begins : j < i }) = k - 1
        e == CHOOSE i \in ends : Cardinality({ j \in ends : j < i }) = k - 1
    IN  SubSeq(lines, b + 1, e - 1)

\* The RRULE lines among the given lines.
RRules(lines) == SelectSeq(lines, LAMBDA l : l # <<>> /\ Head(l) = "RRULE:FREQ=")

\* C11: for a recurrence among the five options the block has no RRULE line
\* when it is NONE, exactly the line RRULE:FREQ=YEARLY when it is ANNUALLY
\* and exactly RRULE:FREQ=<value> when it is DAILY, WEEKLY or MONTHLY; a
\* block never has more than one RRULE line.
C11_RecurrenceMapping ==
    result.op = "export" =>
        \A k \in 1 .. Len(call.events) :
            LET rep   == call.events[k].repeats
                rules == RRules(BlockOf(Lines(result.value), k))
            IN  /\ Len(rules) <= 1
                /\ rep = NONE => rules = <<>>
                /\ rep = ANNUALLY =>
                      rules = << <<"RRULE:FREQ=", "Y", "E", "A", "R", "L", "Y">> >>
                /\ rep \in {DAILY, WEEKLY, MONTHLY} =>
                      rules = << <<"RRULE:FREQ=">> \o rep >>

C11_Witness ==
    /\ result.op = "export"
    /\ Len(call.events) = 2
    /\ call.events[1].repeats = ANNUALLY
    /\ call.events[2].repeats = MONTHLY
    /\ RRules(BlockOf(Lines(result.value), 1))
          = << <<"RRULE:FREQ=", "Y", "E", "A", "R", "L", "Y">> >>

\* C12: two exports of the same list have the same number of lines and are
\* equal at every line except the DTSTAMP and UID lines.
C12_ExportsDifferOnlyInStamps ==
    result.op = "exportAgain" =>
        LET a == Lines(result.first)
            b == Lines(result.value)
        IN  /\ Len(a) = Len(b)
            /\ \A i \in 1 .. Len(a) :
                  a[i] # b[i] =>
                      /\ Head(a[i]) \in {"DTSTAMP:", "UID:"}
                      /\ Head(b[i]) = Head(a[i])

C12_Witness ==
    /\ result.op = "exportAgain"
    /\ Len(call.events) = 2
    /\ result.first # result.value
    /\ Len(Lines(result.first)) = Len(Lines(result.value))

\* C13: the export of no events is exactly the five calendar lines, with no
\* BEGIN:VEVENT line among them.
C13_EmptyExport ==
    (result.op = "export" /\ call.events = <<>>) =>
        LET lines == Lines(result.value)
        IN  /\ lines = << <<"BEGIN:VCALENDAR">>,
                          <<"VERSION:2.0">>,
                          <<"PRODID:-//Calendar Entry App//Streamlit//EN">>,
                          <<"CALSCALE:GREGORIAN">>,
                          <<"END:VCALENDAR">> >>
            /\ \A i \in 1 .. Len(lines) : lines[i] # <<"BEGIN:VEVENT">>

C13_Witness ==
    /\ result.op = "export"
    /\ call.events = <<>>
    /\ Len(Lines(result.value)) = 5

-----------------------------------------------------------------------------
(* Properties of create_ics_event, checked under SpecEvent *)

\* The block is the seven fixed lines and END:VEVENT, with the given lines
\* between them.
BlockWith(lines, between) ==
    /\ Len(lines) = 8 + Len(between)
    /\ lines[1] = <<"BEGIN:VEVENT">>
    /\ Head(lines[2]) = "DTSTAMP:"
    /\ Head(lines[3]) = "UID:"
    /\ Head(lines[4]) = "DTSTART:"
    /\ Head(lines[5]) = "DTEND:"
    /\ lines[6] = <<"SUMMARY:">> \o call.description
    /\ lines[7] = <<"DESCRIPTION:">> \o call.description
    /\ SubSeq(lines, 8, Len(lines) - 1) = between
    /\ lines[Len(lines)] = <<"END:VEVENT">>

\* C15 as stated: for a recurrence that is none of the five options the
\* block has no RRULE line and is otherwise complete.
C15_AsStated ==
    (result.op = "event" /\ call.repeats \notin RepeatsOptions)
        => BlockWith(Lines(result.value), <<>>)

\* The recurrence text in capitals and without surrounding whitespace.
Normalised(r) == Strip(Upper(r))

\* C15: for a recurrence that is none of the five options the block is
\* complete; it has no RRULE line when the text, put in capitals and
\* trimmed, is none of DAILY, WEEKLY, MONTHLY, ANNUALLY, YEARLY, and it has
\* the RRULE line of that frequency (YEARLY for ANNUALLY) when it is one.
C15_UnknownRecurrence ==
    (result.op = "event" /\ call.repeats \notin RepeatsOptions) =>
        LET n == Normalised(call.repeats)
        IN  IF n \in {DAILY, WEEKLY, MONTHLY, ANNUALLY, YEARLY}
            THEN BlockWith(Lines(result.value),
                           << <<"RRULE:FREQ=">> \o (IF n = ANNUALLY THEN YEARLY ELSE n) >>)
            ELSE BlockWith(Lines(result.value), <<>>)

C15_Witness ==
    /\ result.op = "event"
    /\ call.repeats = <<"H", "O", "U", "R", "L", "Y">>
    /\ Len(Lines(result.value)) = 8

=============================================================================
